---- MODULE Spec2Model ----
(***************************************************************************)
(* Verification model of the loco_math slice: the scalar Vector2/Vector4   *)
(* kernels, the Matrix4 operator layer (compile-time backend dispatch) and *)
(* the Matrix4 stream operators.                                           *)
(*                                                                         *)
(* Three specifications share the module:                                  *)
(*   SpecVec    the scalar vector kernels applied to caller buffers        *)
(*   SpecMat    the Matrix4 operator layer applied to caller matrices      *)
(*   SpecParse  operator>> / operator<< on one stream and one matrix       *)
(***************************************************************************)
EXTENDS Integers, Sequences, FiniteSets, TLC

(***************************************************************************)
(* The element type T.  The kernels are templates over an IEEE floating    *)
(* type; the model instantiates T = float (binary32): a value is           *)
(*   <<0, m, e>>   the finite number m * 2^e  (m odd, or m = e = 0)        *)
(*   <<1, 0, 0>>   NaN                                                     *)
(*   <<2, s, 0>>   s * infinity, s = 1 or -1                               *)
(* with at most MantBits significant bits, rounded to nearest, ties to     *)
(* even.  Exponent overflow/underflow and the sign of zero are not         *)
(* modelled: the inputs below stay far inside the exponent range.          *)
(***************************************************************************)
MantBits == 24

NaN == <<1, 0, 0>>
PInf == <<2, 1, 0>>
NInf == <<2, -1, 0>>

IsNaN(x) == x[1] = 1
IsInf(x) == x[1] = 2
IsFinite(x) == x[1] = 0

RECURSIVE Pow2(_)
Pow2(n) == IF n <= 0 THEN 1 ELSE 2 * Pow2(n - 1)

RECURSIVE BitLen(_)
BitLen(n) == IF n = 0 THEN 0 ELSE 1 + BitLen(n \div 2)

AbsInt(n) == IF n < 0 THEN -n ELSE n

SignInt(n) == IF n < 0 THEN -1 ELSE IF n = 0 THEN 0 ELSE 1

RECURSIVE Strip(_, _, _)
\* canonical form of sign * a * 2^e, a >= 0
Strip(sign, a, e) ==
    IF a = 0 THEN <<0, 0, 0>>
    ELSE IF a % 2 = 0 THEN Strip(sign, a \div 2, e + 1)
    ELSE <<0, sign * a, e>>

\* m * 2^e rounded to MantBits significant bits, nearest, ties to even
RoundT(m, e) ==
    LET a == AbsInt(m)
        s == BitLen(a) - MantBits
    IN  IF s <= 0 THEN Strip(SignInt(m), a, e)
        ELSE LET q == a \div Pow2(s)
                 r == a % Pow2(s)
                 half == Pow2(s - 1)
                 up == r > half \/ (r = half /\ q % 2 = 1)
             IN  Strip(SignInt(m), IF up THEN q + 1 ELSE q, e + s)

Flt(m, e) == RoundT(m, e)

FNeg(x) == IF IsNaN(x) THEN NaN ELSE <<x[1], -x[2], x[3]>>

FAbs(x) == IF IsNaN(x) THEN NaN ELSE <<x[1], AbsInt(x[2]), x[3]>>

\* the sum of two finite values, exactly aligned and then rounded; an addend
\* below a quarter of the other's last place cannot change the rounded sum
FAddFinite(x, y) ==
    LET hi == IF x[3] >= y[3] THEN x ELSE y
        lo == IF x[3] >= y[3] THEN y ELSE x
        topHi == hi[3] + BitLen(AbsInt(hi[2]))
        topLo == lo[3] + BitLen(AbsInt(lo[2]))
    IN  IF lo[2] = 0 THEN hi
        ELSE IF hi[2] = 0 THEN lo
        ELSE IF topLo <= topHi - MantBits - 3 THEN hi
        ELSE RoundT(hi[2] * Pow2(hi[3] - lo[3]) + lo[2], lo[3])

FAdd(x, y) ==
    IF IsNaN(x) \/ IsNaN(y) THEN NaN
    ELSE IF IsInf(x) /\ IsInf(y) THEN (IF x = y THEN x ELSE NaN)
    ELSE IF IsInf(x) THEN x
    ELSE IF IsInf(y) THEN y
    ELSE FAddFinite(x, y)

FSub(x, y) == FAdd(x, FNeg(y))

FMul(x, y) ==
    IF IsNaN(x) \/ IsNaN(y) THEN NaN
    ELSE IF IsInf(x) \/ IsInf(y)
         THEN (IF x[2] = 0 \/ y[2] = 0 THEN NaN
               ELSE <<2, SignInt(x[2]) * SignInt(y[2]), 0>>)
    ELSE RoundT(x[2] * y[2], x[3] + y[3])

\* x >= y as the hardware compares: false as soon as an operand is NaN
FGe(x, y) ==
    IF IsNaN(x) \/ IsNaN(y) THEN FALSE
    ELSE IF x = y THEN TRUE
    ELSE FSub(x, y)[2] > 0

\* x < y, likewise false on NaN
FLt(x, y) ==
    IF IsNaN(x) \/ IsNaN(y) THEN FALSE
    ELSE IF x = y THEN FALSE
    ELSE FSub(x, y)[2] < 0

Zero == Flt(0, 0)
One == Flt(1, 0)

(***************************************************************************)
(* The epsilon constant (math::EPS, tiny::math::EPS<T>), a power of two of *)
(* the nominal magnitude 1e-6.                                             *)
(***************************************************************************)
EpsExp == -20
EPS == Flt(1, EpsExp)

(***************************************************************************)
(* Scalar Vector4 kernels.  A buffer is a function on 0 .. N-1.            *)
(***************************************************************************)
VECTOR_SIZE == 4

\* mutant: the body of kernel_sub_vec4 under the name of kernel_add_vec4
kernel_add_vec4_sub(dst, lhs, rhs) ==
    [i \in 0 .. VECTOR_SIZE - 1 |-> FSub(lhs[i], rhs[i])]

kernel_add_vec4(dst, lhs, rhs) ==
    [i \in 0 .. VECTOR_SIZE - 1 |-> FAdd(lhs[i], rhs[i])]

RECURSIVE length_square_loop_vec4(_, _, _)
length_square_loop_vec4(vec, i, accum) ==
    IF i < VECTOR_SIZE
    THEN length_square_loop_vec4(vec, i + 1, FAdd(accum, FMul(vec[i], vec[i])))
    ELSE accum

\* mutant: the loop starts at index 1
kernel_length_square_vec4_skip(vec) == length_square_loop_vec4(vec, 1, Zero)

kernel_length_square_vec4(vec) == length_square_loop_vec4(vec, 0, Zero)

RECURSIVE dot_loop_vec4(_, _, _, _)
dot_loop_vec4(lhs, rhs, i, accum) ==
    IF i < VECTOR_SIZE
    THEN dot_loop_vec4(lhs, rhs, i + 1, FAdd(accum, FMul(lhs[i], rhs[i])))
    ELSE accum

kernel_dot_vec4(lhs, rhs) == dot_loop_vec4(lhs, rhs, 0, Zero)

RECURSIVE compare_eq_loop_vec4(_, _, _)
compare_eq_loop_vec4(lhs, rhs, i) ==
    IF i < VECTOR_SIZE
    THEN IF FGe(FAbs(FSub(lhs[i], rhs[i])), EPS)
         THEN FALSE
         ELSE compare_eq_loop_vec4(lhs, rhs, i + 1)
    ELSE TRUE

RECURSIVE compare_eq_loop_vec4_noabs(_, _, _)
compare_eq_loop_vec4_noabs(lhs, rhs, i) ==
    IF i < VECTOR_SIZE
    THEN IF FGe(FSub(lhs[i], rhs[i]), EPS)
         THEN FALSE
         ELSE compare_eq_loop_vec4_noabs(lhs, rhs, i + 1)
    ELSE TRUE

\* mutant: the difference is compared without std::abs
kernel_compare_eq_vec4_noabs(lhs, rhs) == compare_eq_loop_vec4_noabs(lhs, rhs, 0)

kernel_compare_eq_vec4(lhs, rhs) == compare_eq_loop_vec4(lhs, rhs, 0)

(***************************************************************************)
(* Scalar Vector2 kernels.                                                 *)
(***************************************************************************)
VECTOR_NDIM == 2

kernel_add_vec2(dst, lhs, rhs) ==
    [i \in 0 .. VECTOR_NDIM - 1 |-> FAdd(lhs[i], rhs[i])]

RECURSIVE length_square_loop_vec2(_, _, _)
length_square_loop_vec2(vec, i, accum) ==
    IF i < VECTOR_NDIM
    THEN length_square_loop_vec2(vec, i + 1, FAdd(accum, FMul(vec[i], vec[i])))
    ELSE accum

kernel_length_square_vec2(vec) == length_square_loop_vec2(vec, 0, Zero)

RECURSIVE dot_loop_vec2(_, _, _, _)
dot_loop_vec2(lhs, rhs, i, accum) ==
    IF i < VECTOR_NDIM
    THEN dot_loop_vec2(lhs, rhs, i + 1, FAdd(accum, FMul(lhs[i], rhs[i])))
    ELSE accum

kernel_dot_vec2(lhs, rhs) == dot_loop_vec2(lhs, rhs, 0, Zero)

RECURSIVE compare_eq_loop_vec2(_, _, _)
compare_eq_loop_vec2(lhs, rhs, i) ==
    IF i < VECTOR_NDIM
    THEN IF FGe(FAbs(FSub(lhs[i], rhs[i])), EPS)
         THEN FALSE
         ELSE compare_eq_loop_vec2(lhs, rhs, i + 1)
    ELSE TRUE

kernel_compare_eq_vec2(lhs, rhs) == compare_eq_loop_vec2(lhs, rhs, 0)

(***************************************************************************)
(* Matrix4<T>: a buffer of BUFFER_SIZE elements, column-major.  mat(row,   *)
(* col) and mat[col][row] both name the element at offset col * 4 + row.   *)
(***************************************************************************)
MATRIX_SIZE == 4
BUFFER_SIZE == 16

\* Matrix4<T>::operator()(row, col)
ElemAt(row, col) == col * MATRIX_SIZE + row

\* Matrix4<T>::operator[](col) followed by Vector4<T>::operator[](row)
ColumnElemAt(col, row) == col * MATRIX_SIZE + row

(***************************************************************************)
(* Text.  A token of the input is <<0, n>> (the decimal integer n),        *)
(* <<1, 0>> (text that starts no number) or <<2, n>> (the digits of n      *)
(* directly followed by other characters).  An emitted value is <<0, n>>,  *)
(* <<1, 0>> ("nan") or <<2, s>> ("inf", "-inf").  The matrices read and    *)
(* written here hold integers.                                             *)
(***************************************************************************)
IsNumber(tok) == tok[1] = 0
IsJunk(tok) == tok[1] = 1
IsNumberThenJunk(tok) == tok[1] = 2

\* std::num_get of a decimal integer into T: the nearest value of T
ParseT(n) == RoundT(n, 0)

\* the integer a finite integral value of T stands for
ToInt(x) == x[2] * Pow2(x[3])

RECURSIVE Digits(_)
Digits(n) == IF n < 10 THEN 1 ELSE 1 + Digits(n \div 10)

RECURSIVE Pow10(_)
Pow10(n) == IF n <= 0 THEN 1 ELSE 10 * Pow10(n - 1)

\* n rounded to p significant decimal digits, nearest, ties to even
RoundSig(n, p) ==
    LET a == AbsInt(n)
        s == Digits(a) - p
    IN  IF s <= 0 THEN n
        ELSE LET q == a \div Pow10(s)
                 r == a % Pow10(s)
                 half == 5 * Pow10(s - 1)
                 up == r > half \/ (r = half /\ q % 2 = 1)
             IN  SignInt(n) * (IF up THEN q + 1 ELSE q) * Pow10(s)

\* std::ostream << T at the stream's precision
FormatT(x, precision) ==
    IF IsNaN(x) THEN <<1, 0>>
    ELSE IF IsInf(x) THEN <<2, x[2]>>
    ELSE <<0, RoundSig(ToInt(x), precision)>>

(***************************************************************************)
(* operator<<: sets the precision of the stream and emits four lines, line *)
(* r holding src[0][r], src[1][r], src[2][r], src[3][r].                   *)
(***************************************************************************)
PRECISION_DIGITS == 10

operator_out(src) ==
    [precision |-> PRECISION_DIGITS,
     text |-> [r \in 1 .. MATRIX_SIZE |->
                 [c \in 1 .. MATRIX_SIZE |->
                    FormatT(src[ColumnElemAt(c - 1, r - 1)], PRECISION_DIGITS)]]]

(***************************************************************************)
(* operator>>.  A stream is [toks, ws, fail, eof]: the tokens not yet      *)
(* read, whether white space follows the last one, failbit and eofbit.     *)
(***************************************************************************)
\* the content of a local that was never assigned
Indeterminate == <<3, 0, 0>>

\* std::istream >> T: [st |-> the stream after it, val |-> the value stored]
ExtractOne(st, old) ==
    IF st.fail \/ st.eof
    THEN [st |-> [st EXCEPT !.fail = TRUE], val |-> old]
    ELSE IF st.toks = <<>>
    THEN [st |-> [st EXCEPT !.fail = TRUE, !.eof = TRUE], val |-> old]
    ELSE LET tok == Head(st.toks) IN
         IF IsJunk(tok)
         THEN [st |-> [st EXCEPT !.fail = TRUE], val |-> Zero]
         ELSE IF IsNumberThenJunk(tok)
         THEN [st |-> [st EXCEPT !.toks = <<<<1, 0>>>> \o Tail(st.toks)],
               val |-> ParseT(tok[2])]
         ELSE [st |-> [st EXCEPT !.toks = Tail(st.toks),
                                 !.eof = (Tail(st.toks) = <<>> /\ ~st.ws)],
               val |-> ParseT(tok[2])]

RECURSIVE ExtractAll(_, _, _)
\* input_stream >> mat[0] >> ... >> mat[15]
ExtractAll(st, mat, k) ==
    IF k < BUFFER_SIZE
    THEN LET one == ExtractOne(st, mat[k])
         IN  ExtractAll(one.st, [mat EXCEPT ![k] = one.val], k + 1)
    ELSE [st |-> st, mat |-> mat]

\* mutant: the values are stored in buffer order
StoreBufferOrder(dst, mat) == [o \in 0 .. BUFFER_SIZE - 1 |-> mat[o]]

\* dst(0, 0) = mat[0]; dst(0, 1) = mat[1]; ... dst(3, 3) = mat[15]
StoreRowMajor(dst, mat) ==
    [o \in 0 .. BUFFER_SIZE - 1 |->
        LET row == o % MATRIX_SIZE
            col == o \div MATRIX_SIZE
        IN  mat[row * MATRIX_SIZE + col]]

\* mutant: the values are stored without looking at the fail flag
CommitAlways(st, dst, mat) == StoreRowMajor(dst, mat)

\* if (!input_stream.fail()) { dst(...) = mat[...]; ... }
Commit(st, dst, mat) == IF ~st.fail THEN StoreRowMajor(dst, mat) ELSE dst

\* mutant: every value that was extracted is stored, whatever the flag
CommitExtracted(st, dst, mat) ==
    LET full == StoreRowMajor(dst, mat)
    IN  [o \in 0 .. BUFFER_SIZE - 1 |->
            IF full[o] = Indeterminate THEN dst[o] ELSE full[o]]

\* mutant: the values are extracted into the destination itself
operator_in_direct(st, dst) ==
    LET got == ExtractAll(st,
                          [k \in 0 .. BUFFER_SIZE - 1 |-> Indeterminate], 0)
    IN  [st |-> got.st, mat |-> got.mat,
         dst |-> CommitExtracted(got.st, dst, got.mat)]

operator_in(st, dst) ==
    LET got == ExtractAll(st,
                          [k \in 0 .. BUFFER_SIZE - 1 |-> Indeterminate], 0)
    IN  [st |-> got.st, mat |-> got.mat,
         dst |-> Commit(got.st, dst, got.mat)]

(***************************************************************************)
(* Division of T, for the inverse.  The quotient of the mantissas is taken *)
(* to MantBits + 2 bits and a sticky bit, then rounded once.               *)
(***************************************************************************)
FDivFinite(x, y) ==
    LET a == AbsInt(x[2])
        b == AbsInt(y[2])
        sign == SignInt(x[2]) * SignInt(y[2])
        k == MantBits + 2 + BitLen(b) - BitLen(a)
        num == a * Pow2(k)
        q == num \div b
        sticky == IF num % b = 0 THEN 0 ELSE 1
    IN  IF b = 1 THEN <<0, sign * a, x[3] - y[3]>>
        ELSE RoundT(sign * (2 * q + sticky), x[3] - y[3] - k - 1)

FDiv(x, y) ==
    IF IsNaN(x) \/ IsNaN(y) THEN NaN
    ELSE IF IsInf(x) /\ IsInf(y) THEN NaN
    ELSE IF IsInf(x) THEN <<2, x[2] * (IF y[2] < 0 THEN -1 ELSE 1), 0>>
    ELSE IF IsInf(y) THEN Zero
    ELSE IF y[2] = 0 THEN (IF x[2] = 0 THEN NaN ELSE <<2, SignInt(x[2]), 0>>)
    ELSE IF x[2] = 0 THEN Zero
    ELSE FDivFinite(x, y)

(***************************************************************************)
(* Matrix4 kernels, scalar set (namespace scalar).                         *)
(***************************************************************************)
Cells == 0 .. BUFFER_SIZE - 1
Lanes == 0 .. MATRIX_SIZE - 1

\* swap element (r, c) with (c, r) for all r < c
scalar_kernel_transpose_inplace_mat4(cols) ==
    [o \in Cells |-> cols[ElemAt(o \div MATRIX_SIZE, o % MATRIX_SIZE)]]

scalar_kernel_trace_mat4(cols) ==
    FAdd(FAdd(FAdd(FAdd(Zero, cols[ElemAt(0, 0)]), cols[ElemAt(1, 1)]),
              cols[ElemAt(2, 2)]), cols[ElemAt(3, 3)])

\* a(r1,c1) * a(r2,c2) - a(r3,c3) * a(r4,c4)
Minor2(cols, r1, c1, r2, c2, r3, c3, r4, c4) ==
    FSub(FMul(cols[ElemAt(r1, c1)], cols[ElemAt(r2, c2)]),
         FMul(cols[ElemAt(r3, c3)], cols[ElemAt(r4, c4)]))

\* the 2x2 minors of rows 0,1 (s) and of rows 2,3 (c)
MinorS(cols) ==
    [n \in 0 .. 5 |->
        CASE n = 0 -> Minor2(cols, 0, 0, 1, 1, 1, 0, 0, 1)
          [] n = 1 -> Minor2(cols, 0, 0, 1, 2, 1, 0, 0, 2)
          [] n = 2 -> Minor2(cols, 0, 0, 1, 3, 1, 0, 0, 3)
          [] n = 3 -> Minor2(cols, 0, 1, 1, 2, 1, 1, 0, 2)
          [] n = 4 -> Minor2(cols, 0, 1, 1, 3, 1, 1, 0, 3)
          [] OTHER -> Minor2(cols, 0, 2, 1, 3, 1, 2, 0, 3)]

MinorC(cols) ==
    [n \in 0 .. 5 |->
        CASE n = 0 -> Minor2(cols, 2, 0, 3, 1, 3, 0, 2, 1)
          [] n = 1 -> Minor2(cols, 2, 0, 3, 2, 3, 0, 2, 2)
          [] n = 2 -> Minor2(cols, 2, 0, 3, 3, 3, 0, 2, 3)
          [] n = 3 -> Minor2(cols, 2, 1, 3, 2, 3, 1, 2, 2)
          [] n = 4 -> Minor2(cols, 2, 1, 3, 3, 3, 1, 2, 3)
          [] OTHER -> Minor2(cols, 2, 2, 3, 3, 3, 2, 2, 3)]

\* x * p - y * q + z * r
Expand3(x, p, y, q, z, r) ==
    FAdd(FSub(FMul(x, p), FMul(y, q)), FMul(z, r))

scalar_kernel_determinant_mat4(cols) ==
    LET s == MinorS(cols)
        c == MinorC(cols)
    IN  FAdd(FSub(FAdd(FAdd(FSub(FMul(s[0], c[5]), FMul(s[1], c[4])),
                            FMul(s[2], c[3])),
                       FMul(s[3], c[2])),
                  FMul(s[4], c[1])),
             FMul(s[5], c[0]))

\* the adjugate (transposed cofactor matrix), element (row, col)
Adjugate(cols, row, col) ==
    LET s == MinorS(cols)
        c == MinorC(cols)
        a(r, k) == cols[ElemAt(r, k)]
        n == row * MATRIX_SIZE + col
    IN  CASE n = 0 -> Expand3(a(1, 1), c[5], a(1, 2), c[4], a(1, 3), c[3])
          [] n = 1 -> FNeg(Expand3(a(0, 1), c[5], a(0, 2), c[4], a(0, 3), c[3]))
          [] n = 2 -> Expand3(a(3, 1), s[5], a(3, 2), s[4], a(3, 3), s[3])
          [] n = 3 -> FNeg(Expand3(a(2, 1), s[5], a(2, 2), s[4], a(2, 3), s[3]))
          [] n = 4 -> FNeg(Expand3(a(1, 0), c[5], a(1, 2), c[2], a(1, 3), c[1]))
          [] n = 5 -> Expand3(a(0, 0), c[5], a(0, 2), c[2], a(0, 3), c[1])
          [] n = 6 -> FNeg(Expand3(a(3, 0), s[5], a(3, 2), s[2], a(3, 3), s[1]))
          [] n = 7 -> Expand3(a(2, 0), s[5], a(2, 2), s[2], a(2, 3), s[1])
          [] n = 8 -> Expand3(a(1, 0), c[4], a(1, 1), c[2], a(1, 3), c[0])
          [] n = 9 -> FNeg(Expand3(a(0, 0), c[4], a(0, 1), c[2], a(0, 3), c[0]))
          [] n = 10 -> Expand3(a(3, 0), s[4], a(3, 1), s[2], a(3, 3), s[0])
          [] n = 11 -> FNeg(Expand3(a(2, 0), s[4], a(2, 1), s[2], a(2, 3), s[0]))
          [] n = 12 -> FNeg(Expand3(a(1, 0), c[3], a(1, 1), c[1], a(1, 2), c[0]))
          [] n = 13 -> Expand3(a(0, 0), c[3], a(0, 1), c[1], a(0, 2), c[0])
          [] n = 14 -> FNeg(Expand3(a(3, 0), s[3], a(3, 1), s[1], a(3, 2), s[0]))
          [] OTHER -> Expand3(a(2, 0), s[3], a(2, 1), s[1], a(2, 2), s[0])

\* adjugate over determinant; no check for a zero determinant
scalar_kernel_inverse_mat4(dst, src) ==
    LET det == scalar_kernel_determinant_mat4(src)
    IN  [o \in Cells |->
            FDiv(Adjugate(src, o % MATRIX_SIZE, o \div MATRIX_SIZE), det)]

scalar_kernel_add_mat4(dst, lhs, rhs) == [o \in Cells |-> FAdd(lhs[o], rhs[o])]

scalar_kernel_sub_mat4(dst, lhs, rhs) == [o \in Cells |-> FSub(lhs[o], rhs[o])]

scalar_kernel_scale_mat4(dst, scale, mat) == [o \in Cells |-> FMul(scale, mat[o])]

scalar_kernel_hadamard_mat4(dst, lhs, rhs) ==
    [o \in Cells |-> FMul(lhs[o], rhs[o])]

\* dst(i, j) = sum over k of lhs(i, k) * rhs(k, j), from zero, in order of k
scalar_kernel_matmul_mat4(dst, lhs, rhs) ==
    [o \in Cells |->
        LET i == o % MATRIX_SIZE
            j == o \div MATRIX_SIZE
            p(k) == FMul(lhs[ElemAt(i, k)], rhs[ElemAt(k, j)])
        IN  FAdd(FAdd(FAdd(FAdd(Zero, p(0)), p(1)), p(2)), p(3))]

\* dst(i) = sum over k of mat(i, k) * vec(k)
scalar_kernel_matmul_vec_mat4(dst, mat, vec) ==
    [i \in Lanes |->
        LET p(k) == FMul(mat[ElemAt(i, k)], vec[k])
        IN  FAdd(FAdd(FAdd(FAdd(Zero, p(0)), p(1)), p(2)), p(3))]

RECURSIVE compare_eq_loop_mat4(_, _, _)
compare_eq_loop_mat4(lhs, rhs, o) ==
    IF o < BUFFER_SIZE
    THEN IF FGe(FAbs(FSub(lhs[o], rhs[o])), EPS)
         THEN FALSE
         ELSE compare_eq_loop_mat4(lhs, rhs, o + 1)
    ELSE TRUE

scalar_kernel_compare_eq_mat4(lhs, rhs) == compare_eq_loop_mat4(lhs, rhs, 0)

(***************************************************************************)
(* Matrix4 kernels, SSE set (namespace sse): one 128-bit register holds a  *)
(* column; every lane does the operation of the scalar loop body.  The     *)
(* products of a matrix product are summed pairwise.                       *)
(***************************************************************************)
\* the four lanes of column c
Column(cols, c) == [lane \in Lanes |-> cols[ColumnElemAt(c, lane)]]

\* the buffer made of four column registers
FromColumns(regs) == [o \in Cells |-> regs[o \div MATRIX_SIZE][o % MATRIX_SIZE]]

LaneAdd(x, y) == [lane \in DOMAIN x |-> FAdd(x[lane], y[lane])]
LaneSub(x, y) == [lane \in DOMAIN x |-> FSub(x[lane], y[lane])]
LaneMul(x, y) == [lane \in DOMAIN x |-> FMul(x[lane], y[lane])]
Splat(lanes, v) == [lane \in lanes |-> v]

sse_kernel_add_mat4(dst, lhs, rhs) ==
    FromColumns([c \in Lanes |-> LaneAdd(Column(lhs, c), Column(rhs, c))])

sse_kernel_sub_mat4(dst, lhs, rhs) ==
    FromColumns([c \in Lanes |-> LaneSub(Column(lhs, c), Column(rhs, c))])

sse_kernel_scale_mat4(dst, scale, mat) ==
    FromColumns([c \in Lanes |-> LaneMul(Splat(Lanes, scale), Column(mat, c))])

sse_kernel_hadamard_mat4(dst, lhs, rhs) ==
    FromColumns([c \in Lanes |-> LaneMul(Column(lhs, c), Column(rhs, c))])

\* the linear combination of the columns of mat with the weights w(0..3)
SseCombine(mat, w) ==
    LET t(k) == LaneMul(Column(mat, k), Splat(Lanes, w[k]))
    IN  LaneAdd(LaneAdd(t(0), t(1)), LaneAdd(t(2), t(3)))

sse_kernel_matmul_mat4(dst, lhs, rhs) ==
    FromColumns([j \in Lanes |-> SseCombine(lhs, Column(rhs, j))])

sse_kernel_matmul_vec_mat4(dst, mat, vec) == SseCombine(mat, vec)

(***************************************************************************)
(* Matrix4 kernels, AVX set (namespace avx): one 256-bit register holds    *)
(* two columns.  The products of a matrix product are summed in order,     *)
(* starting from the first product.                                        *)
(***************************************************************************)
WideLanes == 0 .. 2 * MATRIX_SIZE - 1

\* the eight lanes of columns 2h and 2h + 1
ColumnPair(cols, h) == [lane \in WideLanes |-> cols[h * 2 * MATRIX_SIZE + lane]]

FromColumnPairs(regs) ==
    [o \in Cells |-> regs[o \div (2 * MATRIX_SIZE)][o % (2 * MATRIX_SIZE)]]

avx_kernel_add_mat4(dst, lhs, rhs) ==
    FromColumnPairs([h \in 0 .. 1 |->
                        LaneAdd(ColumnPair(lhs, h), ColumnPair(rhs, h))])

avx_kernel_sub_mat4(dst, lhs, rhs) ==
    FromColumnPairs([h \in 0 .. 1 |->
                        LaneSub(ColumnPair(lhs, h), ColumnPair(rhs, h))])

avx_kernel_scale_mat4(dst, scale, mat) ==
    FromColumnPairs([h \in 0 .. 1 |->
                        LaneMul(Splat(WideLanes, scale), ColumnPair(mat, h))])

avx_kernel_hadamard_mat4(dst, lhs, rhs) ==
    FromColumnPairs([h \in 0 .. 1 |->
                        LaneMul(ColumnPair(lhs, h), ColumnPair(rhs, h))])

AvxCombine(mat, w) ==
    LET t(k) == LaneMul(Column(mat, k), Splat(Lanes, w[k]))
    IN  LaneAdd(LaneAdd(LaneAdd(t(0), t(1)), t(2)), t(3))

avx_kernel_matmul_mat4(dst, lhs, rhs) ==
    FromColumns([j \in Lanes |-> AvxCombine(lhs, Column(rhs, j))])

avx_kernel_matmul_vec_mat4(dst, mat, vec) == AvxCombine(mat, vec)

(***************************************************************************)
(* The operator layer of Matrix4.  Each operator yields the value it       *)
(* returns (ret: a buffer, val: a scalar, eq: a boolean), the kernels it   *)
(* invoked, and its operands as they are after the call.  avx and sse are  *)
(* the build flags LOCOMATH_AVX_ENABLED and LOCOMATH_SSE_ENABLED.          *)
(***************************************************************************)
Fresh == [o \in Cells |-> Zero]
FreshVec == [i \in Lanes |-> Zero]

Result(ret, val, eq, kernels, lhs, rhs) ==
    [ret |-> ret, val |-> val, eq |-> eq, kernels |-> kernels,
     lhs |-> lhs, rhs |-> rhs]

\* mutant: the kernel is run on the operand instead of on a copy of it
transpose_nocopy(mat) ==
    Result(scalar_kernel_transpose_inplace_mat4(mat), Zero, FALSE,
           <<<<"scalar", "kernel_transpose_inplace_mat4">>>>,
           scalar_kernel_transpose_inplace_mat4(mat), <<>>)

transpose(mat) ==
    LET dst == mat
    IN  Result(scalar_kernel_transpose_inplace_mat4(dst), Zero, FALSE,
               <<<<"scalar", "kernel_transpose_inplace_mat4">>>>, mat, <<>>)

transposeInPlace(mat) ==
    Result(<<>>, Zero, FALSE,
           <<<<"scalar", "kernel_transpose_inplace_mat4">>>>,
           scalar_kernel_transpose_inplace_mat4(mat), <<>>)

trace(mat) ==
    Result(<<>>, scalar_kernel_trace_mat4(mat), FALSE,
           <<<<"scalar", "kernel_trace_mat4">>>>, mat, <<>>)

determinant(mat) ==
    Result(<<>>, scalar_kernel_determinant_mat4(mat), FALSE,
           <<<<"scalar", "kernel_determinant_mat4">>>>, mat, <<>>)

inverse(mat) ==
    Result(scalar_kernel_inverse_mat4(Fresh, mat), Zero, FALSE,
           <<<<"scalar", "kernel_inverse_mat4">>>>, mat, <<>>)

operator_add(avx, sse, lhs, rhs) ==
    IF avx
    THEN Result(avx_kernel_add_mat4(Fresh, lhs, rhs), Zero, FALSE,
                <<<<"avx", "kernel_add_mat4">>>>, lhs, rhs)
    ELSE IF sse
    THEN Result(sse_kernel_add_mat4(Fresh, lhs, rhs), Zero, FALSE,
                <<<<"sse", "kernel_add_mat4">>>>, lhs, rhs)
    ELSE Result(scalar_kernel_add_mat4(Fresh, lhs, rhs), Zero, FALSE,
                <<<<"scalar", "kernel_add_mat4">>>>, lhs, rhs)

\* mutant: the SSE branch forwards to the addition kernel
operator_sub_sse_add(avx, sse, lhs, rhs) ==
    IF avx
    THEN Result(avx_kernel_sub_mat4(Fresh, lhs, rhs), Zero, FALSE,
                <<<<"avx", "kernel_sub_mat4">>>>, lhs, rhs)
    ELSE IF sse
    THEN Result(sse_kernel_add_mat4(Fresh, lhs, rhs), Zero, FALSE,
                <<<<"sse", "kernel_sub_mat4">>>>, lhs, rhs)
    ELSE Result(scalar_kernel_sub_mat4(Fresh, lhs, rhs), Zero, FALSE,
                <<<<"scalar", "kernel_sub_mat4">>>>, lhs, rhs)

operator_sub(avx, sse, lhs, rhs) ==
    IF avx
    THEN Result(avx_kernel_sub_mat4(Fresh, lhs, rhs), Zero, FALSE,
                <<<<"avx", "kernel_sub_mat4">>>>, lhs, rhs)
    ELSE IF sse
    THEN Result(sse_kernel_sub_mat4(Fresh, lhs, rhs), Zero, FALSE,
                <<<<"sse", "kernel_sub_mat4">>>>, lhs, rhs)
    ELSE Result(scalar_kernel_sub_mat4(Fresh, lhs, rhs), Zero, FALSE,
                <<<<"scalar", "kernel_sub_mat4">>>>, lhs, rhs)

\* static_cast<T>(scale) of a double
CastT(scale) == RoundT(scale[2], scale[3])

\* operator*(double scale, const Matrix4<T>& mat)
operator_mul_scalar_mat(avx, sse, scale, mat) ==
    IF avx
    THEN Result(avx_kernel_scale_mat4(Fresh, CastT(scale), mat), Zero, FALSE,
                <<<<"avx", "kernel_scale_mat4">>>>, mat, <<>>)
    ELSE IF sse
    THEN Result(sse_kernel_scale_mat4(Fresh, CastT(scale), mat), Zero, FALSE,
                <<<<"sse", "kernel_scale_mat4">>>>, mat, <<>>)
    ELSE Result(scalar_kernel_scale_mat4(Fresh, CastT(scale), mat), Zero, FALSE,
                <<<<"scalar", "kernel_scale_mat4">>>>, mat, <<>>)

\* operator*(const Matrix4<T>& mat, double scale)
operator_mul_mat_scalar(avx, sse, mat, scale) ==
    IF avx
    THEN Result(avx_kernel_scale_mat4(Fresh, CastT(scale), mat), Zero, FALSE,
                <<<<"avx", "kernel_scale_mat4">>>>, mat, <<>>)
    ELSE IF sse
    THEN Result(sse_kernel_scale_mat4(Fresh, CastT(scale), mat), Zero, FALSE,
                <<<<"sse", "kernel_scale_mat4">>>>, mat, <<>>)
    ELSE Result(scalar_kernel_scale_mat4(Fresh, CastT(scale), mat), Zero, FALSE,
                <<<<"scalar", "kernel_scale_mat4">>>>, mat, <<>>)

\* operator*(const Matrix4<T>& lhs, const Matrix4<T>& rhs)
operator_mul_mat_mat(avx, sse, lhs, rhs) ==
    IF avx
    THEN Result(avx_kernel_matmul_mat4(Fresh, lhs, rhs), Zero, FALSE,
                <<<<"avx", "kernel_matmul_mat4">>>>, lhs, rhs)
    ELSE IF sse
    THEN Result(sse_kernel_matmul_mat4(Fresh, lhs, rhs), Zero, FALSE,
                <<<<"sse", "kernel_matmul_mat4">>>>, lhs, rhs)
    ELSE Result(scalar_kernel_matmul_mat4(Fresh, lhs, rhs), Zero, FALSE,
                <<<<"scalar", "kernel_matmul_mat4">>>>, lhs, rhs)

\* operator*(const Matrix4<T>& lhs_mat, const Vector4<T>& rhs_vec)
operator_mul_mat_vec(avx, sse, lhs_mat, rhs_vec) ==
    IF avx
    THEN Result(avx_kernel_matmul_vec_mat4(FreshVec, lhs_mat, rhs_vec), Zero,
                FALSE, <<<<"avx", "kernel_matmul_vec_mat4">>>>,
                lhs_mat, rhs_vec)
    ELSE IF sse
    THEN Result(sse_kernel_matmul_vec_mat4(FreshVec, lhs_mat, rhs_vec), Zero,
                FALSE, <<<<"sse", "kernel_matmul_vec_mat4">>>>,
                lhs_mat, rhs_vec)
    ELSE Result(scalar_kernel_matmul_vec_mat4(FreshVec, lhs_mat, rhs_vec), Zero,
                FALSE, <<<<"scalar", "kernel_matmul_vec_mat4">>>>,
                lhs_mat, rhs_vec)

\* mutant: the SSE kernel is preferred to the AVX kernel
hadamard_sse_first(avx, sse, lhs, rhs) ==
    IF sse
    THEN Result(sse_kernel_hadamard_mat4(Fresh, lhs, rhs), Zero, FALSE,
                <<<<"sse", "kernel_hadamard_mat4">>>>, lhs, rhs)
    ELSE IF avx
    THEN Result(avx_kernel_hadamard_mat4(Fresh, lhs, rhs), Zero, FALSE,
                <<<<"avx", "kernel_hadamard_mat4">>>>, lhs, rhs)
    ELSE Result(scalar_kernel_hadamard_mat4(Fresh, lhs, rhs), Zero, FALSE,
                <<<<"scalar", "kernel_hadamard_mat4">>>>, lhs, rhs)

hadamard(avx, sse, lhs, rhs) ==
    IF avx
    THEN Result(avx_kernel_hadamard_mat4(Fresh, lhs, rhs), Zero, FALSE,
                <<<<"avx", "kernel_hadamard_mat4">>>>, lhs, rhs)
    ELSE IF sse
    THEN Result(sse_kernel_hadamard_mat4(Fresh, lhs, rhs), Zero, FALSE,
                <<<<"sse", "kernel_hadamard_mat4">>>>, lhs, rhs)
    ELSE Result(scalar_kernel_hadamard_mat4(Fresh, lhs, rhs), Zero, FALSE,
                <<<<"scalar", "kernel_hadamard_mat4">>>>, lhs, rhs)

operator_eq(lhs, rhs) ==
    Result(<<>>, Zero, scalar_kernel_compare_eq_mat4(lhs, rhs),
           <<<<"scalar", "kernel_compare_eq_mat4">>>>, lhs, rhs)

operator_ne(lhs, rhs) ==
    Result(<<>>, Zero, ~scalar_kernel_compare_eq_mat4(lhs, rhs),
           <<<<"scalar", "kernel_compare_eq_mat4">>>>, lhs, rhs)

(***************************************************************************)
(* State.  SpecVec: two caller buffers and the record of the last kernel   *)
(* call.                                                                   *)
(***************************************************************************)
VARIABLES bufA, bufB, vcall

vecVars == <<bufA, bufB, vcall>>

(***************************************************************************)
(* SpecParse: one input stream, one destination matrix, the precision of   *)
(* the output stream, the record of the last operator call, and the        *)
(* history the properties speak of: the number of operator>> calls, the    *)
(* number of them that failed, the matrix before the first call and the    *)
(* tokens of the most recent call that read sixteen numbers.               *)
(***************************************************************************)
VARIABLES stream, dst, precision, pcall, nparse, nfailed, dst0, lastGood

parseVars == <<stream, dst, precision, pcall, nparse, nfailed, dst0, lastGood>>

(***************************************************************************)
(* SpecMat: the two build flags, two caller matrices and a caller vector,  *)
(* and the record of the last operator call.                               *)
(***************************************************************************)
VARIABLES LOCOMATH_AVX_ENABLED, LOCOMATH_SSE_ENABLED, matA, matB, vecV, mcall

matVars == <<LOCOMATH_AVX_ENABLED, LOCOMATH_SSE_ENABLED, matA, matB, vecV, mcall>>

vars == <<vecVars, parseVars, matVars>>

(***************************************************************************)
(* Inputs of the vector kernels.                                           *)
(***************************************************************************)
MaxStride == 2
MaxDelta == 3
MaxMulBits == 15

VecValues == <<Zero, One, Flt(-2, 0), Flt(3, -1), Flt(1, 5), NaN, PInf, NInf>>

SampleVec(n, a, b) ==
    [j \in 0 .. n - 1 |-> VecValues[((a + b * j) % Len(VecValues)) + 1]]

VecFamily(n) ==
    {SampleVec(n, a, b) : a \in 0 .. Len(VecValues) - 1, b \in 0 .. MaxStride}

\* perturbations in steps of EPS/2
Deltas == {Flt(k, EpsExp - 1) : k \in -MaxDelta .. MaxDelta}

Perturbed(x) ==
    {[j \in DOMAIN x |-> FAdd(x[j], d[j])] : d \in [DOMAIN x -> Deltas]}

\* the buffers whose perturbations are compared with them
PerturbBases(n) == {SampleVec(n, a, 1) : a \in 0 .. Len(VecValues) - 1}

Dim(buf) == Cardinality(DOMAIN buf)

\* products are computed exactly before rounding; operands are kept short
\* enough for the product of two mantissas to be computable
SmallMant(buf) ==
    \A j \in DOMAIN buf : BitLen(AbsInt(buf[j][2])) <= MaxMulBits

NoCall == [kernel |-> "none", lhs |-> <<>>, rhs |-> <<>>, dst |-> <<>>,
           ret |-> Zero, eq |-> FALSE]

Identity == [o \in 0 .. BUFFER_SIZE - 1 |->
                IF o % MATRIX_SIZE = o \div MATRIX_SIZE THEN One ELSE Zero]

Zeros == [o \in 0 .. BUFFER_SIZE - 1 |-> Zero]

NoStream == [toks |-> <<>>, ws |-> FALSE, fail |-> FALSE, eof |-> FALSE]

NoParseCall == [op |-> "none", before |-> Zeros, pre |-> NoStream,
                priorFailure |-> FALSE, text |-> <<>>]

DEFAULT_PRECISION == 6

ParseIdle ==
    /\ stream = NoStream
    /\ dst = Zeros
    /\ precision = DEFAULT_PRECISION
    /\ pcall = NoParseCall
    /\ nparse = 0
    /\ nfailed = 0
    /\ dst0 = Zeros
    /\ lastGood = <<>>

NoMatCall == [op |-> "none", argA |-> Zeros, argB |-> Zeros, argV |-> <<>>,
              scale |-> Zero, ret |-> <<>>, val |-> Zero, eq |-> FALSE,
              kernels |-> <<>>]

MatIdle ==
    /\ LOCOMATH_AVX_ENABLED = FALSE
    /\ LOCOMATH_SSE_ENABLED = FALSE
    /\ matA = Zeros
    /\ matB = Zeros
    /\ vecV = <<>>
    /\ mcall = NoMatCall

VecIdle ==
    /\ bufA = <<>>
    /\ bufB = <<>>
    /\ vcall = NoCall

InitVec ==
    /\ ParseIdle
    /\ MatIdle
    /\ \E n \in {VECTOR_NDIM, VECTOR_SIZE} :
          /\ bufA \in VecFamily(n)
          /\ bufB \in VecFamily(n) \cup
                       (IF bufA \in PerturbBases(n) THEN Perturbed(bufA) ELSE {})
    /\ vcall = NoCall

AddVec4 ==
    /\ Dim(bufA) = VECTOR_SIZE
    /\ vcall' = [kernel |-> "kernel_add_vec4", lhs |-> bufA, rhs |-> bufB,
                 dst |-> kernel_add_vec4(vcall.dst, bufA, bufB),
                 ret |-> Zero, eq |-> FALSE]
    /\ UNCHANGED <<bufA, bufB, parseVars, matVars>>

LengthSquareVec4 ==
    /\ Dim(bufA) = VECTOR_SIZE
    /\ SmallMant(bufA)
    /\ vcall' = [kernel |-> "kernel_length_square_vec4", lhs |-> bufA,
                 rhs |-> bufA, dst |-> <<>>,
                 ret |-> kernel_length_square_vec4(bufA), eq |-> FALSE]
    /\ UNCHANGED <<bufA, bufB, parseVars, matVars>>

DotVec4 ==
    /\ Dim(bufA) = VECTOR_SIZE
    /\ SmallMant(bufA) /\ SmallMant(bufB)
    /\ vcall' = [kernel |-> "kernel_dot_vec4", lhs |-> bufA, rhs |-> bufB,
                 dst |-> <<>>, ret |-> kernel_dot_vec4(bufA, bufB),
                 eq |-> FALSE]
    /\ UNCHANGED <<bufA, bufB, parseVars, matVars>>

CompareEqVec4 ==
    /\ Dim(bufA) = VECTOR_SIZE
    /\ vcall' = [kernel |-> "kernel_compare_eq_vec4", lhs |-> bufA,
                 rhs |-> bufB, dst |-> <<>>, ret |-> Zero,
                 eq |-> kernel_compare_eq_vec4(bufA, bufB)]
    /\ UNCHANGED <<bufA, bufB, parseVars, matVars>>

AddVec2 ==
    /\ Dim(bufA) = VECTOR_NDIM
    /\ vcall' = [kernel |-> "kernel_add_vec2", lhs |-> bufA, rhs |-> bufB,
                 dst |-> kernel_add_vec2(vcall.dst, bufA, bufB),
                 ret |-> Zero, eq |-> FALSE]
    /\ UNCHANGED <<bufA, bufB, parseVars, matVars>>

LengthSquareVec2 ==
    /\ Dim(bufA) = VECTOR_NDIM
    /\ SmallMant(bufA)
    /\ vcall' = [kernel |-> "kernel_length_square_vec2", lhs |-> bufA,
                 rhs |-> bufA, dst |-> <<>>,
                 ret |-> kernel_length_square_vec2(bufA), eq |-> FALSE]
    /\ UNCHANGED <<bufA, bufB, parseVars, matVars>>

DotVec2 ==
    /\ Dim(bufA) = VECTOR_NDIM
    /\ SmallMant(bufA) /\ SmallMant(bufB)
    /\ vcall' = [kernel |-> "kernel_dot_vec2", lhs |-> bufA, rhs |-> bufB,
                 dst |-> <<>>, ret |-> kernel_dot_vec2(bufA, bufB),
                 eq |-> FALSE]
    /\ UNCHANGED <<bufA, bufB, parseVars, matVars>>

CompareEqVec2 ==
    /\ Dim(bufA) = VECTOR_NDIM
    /\ vcall' = [kernel |-> "kernel_compare_eq_vec2", lhs |-> bufA,
                 rhs |-> bufB, dst |-> <<>>, ret |-> Zero,
                 eq |-> kernel_compare_eq_vec2(bufA, bufB)]
    /\ UNCHANGED <<bufA, bufB, parseVars, matVars>>

NextVec ==
    \/ AddVec4
    \/ LengthSquareVec4
    \/ DotVec4
    \/ CompareEqVec4
    \/ AddVec2
    \/ LengthSquareVec2
    \/ DotVec2
    \/ CompareEqVec2

SpecVec == InitVec /\ [][NextVec]_vars

(***************************************************************************)
(* SpecParse: operator>> and operator<< on one stream and one matrix.      *)
(***************************************************************************)
MaxStreamLen == 33
MaxParses == 3

\* the first token's value: small integers, and integers around 2^24
Bases == {1, 16777210}

StreamToks(len, base, badPos, badKind) ==
    [k \in 1 .. len |->
        IF k = badPos
        THEN <<badKind, IF badKind = 1 THEN 0 ELSE base + k - 1>>
        ELSE <<0, base + k - 1>>]

CleanToks ==
    {StreamToks(len, base, 0, 0) : len \in 0 .. MaxStreamLen, base \in Bases}

\* streams with one token that is not a number
FaultyToks ==
    UNION {{StreamToks(len, 1, badPos, badKind) :
              badPos \in 1 .. len, badKind \in {1, 2}} :
                 len \in 1 .. MaxStreamLen}

\* the call reads sixteen numbers: the stream is good and its first sixteen
\* tokens are numbers, the sixteenth possibly followed by other characters
ReadsSixteen(st) ==
    /\ ~st.fail /\ ~st.eof
    /\ Len(st.toks) >= BUFFER_SIZE
    /\ \A k \in 1 .. BUFFER_SIZE - 1 : IsNumber(st.toks[k])
    /\ ~IsJunk(st.toks[BUFFER_SIZE])

InitParse ==
    /\ VecIdle
    /\ MatIdle
    /\ \/ \E toks \in CleanToks, ws \in BOOLEAN, fail \in BOOLEAN :
             stream = [toks |-> toks, ws |-> ws, fail |-> fail, eof |-> FALSE]
       \/ \E toks \in FaultyToks, ws \in BOOLEAN :
             stream = [toks |-> toks, ws |-> ws, fail |-> FALSE, eof |-> FALSE]
    /\ dst \in {Identity, Zeros}
    /\ dst0 = dst
    /\ precision = DEFAULT_PRECISION
    /\ pcall = NoParseCall
    /\ nparse = 0
    /\ nfailed = 0
    /\ lastGood = <<>>

ParseMatrix ==
    /\ nparse < MaxParses
    /\ LET r == operator_in(stream, dst) IN
          /\ stream' = r.st
          /\ dst' = r.dst
    /\ pcall' = [op |-> "operator>>", before |-> dst, pre |-> stream,
                 priorFailure |-> nfailed > 0, text |-> <<>>]
    /\ nparse' = nparse + 1
    /\ nfailed' = IF ReadsSixteen(stream) THEN nfailed ELSE nfailed + 1
    /\ lastGood' = IF ReadsSixteen(stream)
                   THEN [k \in 0 .. BUFFER_SIZE - 1 |-> stream.toks[k + 1][2]]
                   ELSE lastGood
    /\ UNCHANGED <<precision, dst0, vecVars, matVars>>

FormatMatrix ==
    /\ LET o == operator_out(dst) IN
          /\ precision' = o.precision
          /\ pcall' = [op |-> "operator<<", before |-> dst, pre |-> stream,
                       priorFailure |-> nfailed > 0, text |-> o.text]
    /\ UNCHANGED <<stream, dst, nparse, nfailed, dst0, lastGood, vecVars,
                   matVars>>

NextParse ==
    \/ ParseMatrix
    \/ FormatMatrix

SpecParse == InitParse /\ [][NextParse]_vars

(***************************************************************************)
(* SpecMat: one build configuration, caller-owned operands, and calls of   *)
(* the Matrix4 operators on them.                                          *)
(***************************************************************************)
MaxSeed == 1
MaxScale == 1

\* the matrix whose buffer holds k, k + 1, ..., k + 15
Counting(k) == [o \in Cells |-> Flt(o + k, 0)]

\* diag(2, 3, 1, 1)
Diagonal ==
    [o \in Cells |->
        IF o = ElemAt(0, 0) THEN Flt(2, 0)
        ELSE IF o = ElemAt(1, 1) THEN Flt(3, 0)
        ELSE Identity[o]]

\* the identity with last column (1, 0, 1, 1)
Shear ==
    [o \in Cells |->
        IF o \in {ElemAt(0, 3), ElemAt(2, 3)} THEN One ELSE Identity[o]]

\* the identity with first row (2^MantBits, 1, 1, 1)
Big ==
    [o \in Cells |->
        IF o = ElemAt(0, 0) THEN Flt(1, MantBits)
        ELSE IF o \in {ElemAt(0, 1), ElemAt(0, 2), ElemAt(0, 3)} THEN One
        ELSE Identity[o]]

\* left operands, right operands, vectors
MatSamples ==
    {Identity, Diagonal, Shear, Big} \cup {Counting(k) : k \in 0 .. MaxSeed}

RhsSamples == {Zeros, Shear, Counting(MaxSeed)}

VecSamples ==
    {[i \in Lanes |-> IF i = 1 THEN Zero ELSE One],
     [i \in Lanes |-> IF i = 0 THEN NaN ELSE Flt(i + 1, 0)]}

\* double scales: multiples of one half, and 1 + 2^-25, which is no float
Scales == {Flt(k, -1) : k \in -MaxScale .. MaxScale} \cup {<<0, 33554433, -25>>}

InitMat ==
    /\ VecIdle
    /\ ParseIdle
    /\ LOCOMATH_AVX_ENABLED \in BOOLEAN
    /\ LOCOMATH_SSE_ENABLED \in BOOLEAN
    /\ matA \in MatSamples
    /\ matB \in RhsSamples
    /\ vecV \in VecSamples
    /\ mcall = NoMatCall

\* the record of a call: the arguments as they were, what came back
Call(op, scale, r) ==
    [op |-> op, argA |-> matA, argB |-> matB, argV |-> vecV, scale |-> scale,
     ret |-> r.ret, val |-> r.val, eq |-> r.eq, kernels |-> r.kernels]

Build == <<LOCOMATH_AVX_ENABLED, LOCOMATH_SSE_ENABLED>>

Transpose ==
    LET r == transpose(matA)
    IN  /\ matA' = r.lhs
        /\ mcall' = Call("transpose", Zero, r)
        /\ UNCHANGED <<Build, matB, vecV, vecVars, parseVars>>

TransposeInPlace ==
    LET r == transposeInPlace(matA)
    IN  /\ matA' = r.lhs
        /\ mcall' = Call("transposeInPlace", Zero, r)
        /\ UNCHANGED <<Build, matB, vecV, vecVars, parseVars>>

Trace ==
    LET r == trace(matA)
    IN  /\ matA' = r.lhs
        /\ mcall' = Call("trace", Zero, r)
        /\ UNCHANGED <<Build, matB, vecV, vecVars, parseVars>>

Determinant ==
    LET r == determinant(matA)
    IN  /\ matA' = r.lhs
        /\ mcall' = Call("determinant", Zero, r)
        /\ UNCHANGED <<Build, matB, vecV, vecVars, parseVars>>

Inverse ==
    LET r == inverse(matA)
    IN  /\ matA' = r.lhs
        /\ mcall' = Call("inverse", Zero, r)
        /\ UNCHANGED <<Build, matB, vecV, vecVars, parseVars>>

Add ==
    LET r == operator_add(LOCOMATH_AVX_ENABLED, LOCOMATH_SSE_ENABLED,
                          matA, matB)
    IN  /\ matA' = r.lhs
        /\ matB' = r.rhs
        /\ mcall' = Call("operator+", Zero, r)
        /\ UNCHANGED <<Build, vecV, vecVars, parseVars>>

Sub ==
    LET r == operator_sub(LOCOMATH_AVX_ENABLED, LOCOMATH_SSE_ENABLED,
                          matA, matB)
    IN  /\ matA' = r.lhs
        /\ matB' = r.rhs
        /\ mcall' = Call("operator-", Zero, r)
        /\ UNCHANGED <<Build, vecV, vecVars, parseVars>>

ScaleMat ==
    \E scale \in Scales :
        LET r == operator_mul_scalar_mat(LOCOMATH_AVX_ENABLED,
                                         LOCOMATH_SSE_ENABLED, scale, matA)
        IN  /\ matA' = r.lhs
            /\ mcall' = Call("scalar*matrix", scale, r)
            /\ UNCHANGED <<Build, matB, vecV, vecVars, parseVars>>

MatScale ==
    \E scale \in Scales :
        LET r == operator_mul_mat_scalar(LOCOMATH_AVX_ENABLED,
                                         LOCOMATH_SSE_ENABLED, matA, scale)
        IN  /\ matA' = r.lhs
            /\ mcall' = Call("matrix*scalar", scale, r)
            /\ UNCHANGED <<Build, matB, vecV, vecVars, parseVars>>

MatMul ==
    LET r == operator_mul_mat_mat(LOCOMATH_AVX_ENABLED, LOCOMATH_SSE_ENABLED,
                                  matA, matB)
    IN  /\ matA' = r.lhs
        /\ matB' = r.rhs
        /\ mcall' = Call("matrix*matrix", Zero, r)
        /\ UNCHANGED <<Build, vecV, vecVars, parseVars>>

MatVec ==
    LET r == operator_mul_mat_vec(LOCOMATH_AVX_ENABLED, LOCOMATH_SSE_ENABLED,
                                  matA, vecV)
    IN  /\ matA' = r.lhs
        /\ vecV' = r.rhs
        /\ mcall' = Call("matrix*vector", Zero, r)
        /\ UNCHANGED <<Build, matB, vecVars, parseVars>>

Hadamard ==
    LET r == hadamard(LOCOMATH_AVX_ENABLED, LOCOMATH_SSE_ENABLED, matA, matB)
    IN  /\ matA' = r.lhs
        /\ matB' = r.rhs
        /\ mcall' = Call("hadamard", Zero, r)
        /\ UNCHANGED <<Build, vecV, vecVars, parseVars>>

Equal ==
    LET r == operator_eq(matA, matB)
    IN  /\ matA' = r.lhs
        /\ matB' = r.rhs
        /\ mcall' = Call("operator==", Zero, r)
        /\ UNCHANGED <<Build, vecV, vecVars, parseVars>>

NotEqual ==
    LET r == operator_ne(matA, matB)
    IN  /\ matA' = r.lhs
        /\ matB' = r.rhs
        /\ mcall' = Call("operator!=", Zero, r)
        /\ UNCHANGED <<Build, vecV, vecVars, parseVars>>

NextMat ==
    \/ Transpose
    \/ TransposeInPlace
    \/ Trace
    \/ Determinant
    \/ Inverse
    \/ Add
    \/ Sub
    \/ ScaleMat
    \/ MatScale
    \/ MatMul
    \/ MatVec
    \/ Hadamard
    \/ Equal
    \/ NotEqual

SpecMat == InitMat /\ [][NextMat]_vars

(***************************************************************************)
(* Properties of the stream operators (SpecParse).                         *)
(***************************************************************************)
\* C1: when operator>> cannot extract sixteen numbers (a malformed token,
\* fewer than sixteen tokens, a stream that is not good), all sixteen
\* elements of the destination are as before the call and failbit is set.
C1_ParseFailSoft ==
    (pcall.op = "operator>>" /\ ~ReadsSixteen(pcall.pre)) =>
        /\ \A o \in 0 .. BUFFER_SIZE - 1 : dst[o] = pcall.before[o]
        /\ stream.fail

\* operator>> met a malformed token after extracting at least one number,
\* in a stream that held sixteen tokens or more
C1_Witness ==
    /\ pcall.op = "operator>>"
    /\ ~pcall.pre.fail
    /\ Len(pcall.pre.toks) >= BUFFER_SIZE
    /\ IsNumber(pcall.pre.toks[1])
    /\ \E k \in 2 .. BUFFER_SIZE : IsJunk(pcall.pre.toks[k])
    /\ stream.fail
    /\ dst = pcall.before

\* the k-th value (k = 0 .. 15) of the text operator<< emitted, in reading
\* order
Emitted(text, k) == text[(k \div 4) + 1][(k % 4) + 1]

\* the decimal integer n is a value of T
Representable(n) == ToInt(ParseT(n)) = n

\* C6: a successful operator>> stores token k at row k div 4, column k mod 4,
\* which is buffer offset (k mod 4) * 4 + k div 4, and operator<< emits the
\* sixteen values in the order of the tokens: the k-th emitted value is
\* token k as T holds it, printed with ten significant digits, which is
\* token k itself whenever T holds it exactly.
C6_ParseFormatRowMajor ==
    /\ (pcall.op = "operator>>" /\ ReadsSixteen(pcall.pre)) =>
          \A k \in 0 .. 15 :
             dst[(k % 4) * 4 + (k \div 4)] = ParseT(pcall.pre.toks[k + 1][2])
    /\ (pcall.op = "operator<<" /\ lastGood # <<>>) =>
          \A k \in 0 .. 15 :
             /\ Emitted(pcall.text, k) =
                   <<0, RoundSig(ToInt(ParseT(lastGood[k])), 10)>>
             /\ Representable(lastGood[k]) =>
                   Emitted(pcall.text, k) = <<0, lastGood[k]>>

\* the tokens 1 2 ... 16 were parsed and the matrix was then formatted
C6_Witness ==
    /\ pcall.op = "operator<<"
    /\ lastGood = [k \in 0 .. 15 |-> k + 1]
    /\ pcall.text[1] = <<<<0, 1>>, <<0, 2>>, <<0, 3>>, <<0, 4>>>>
    /\ pcall.text[4] = <<<<0, 13>>, <<0, 14>>, <<0, 15>>, <<0, 16>>>>

\* C10: over a sequence of operator>> calls on one stream into one matrix,
\* the matrix holds its initial value or exactly the sixteen values of the
\* most recent successful parse, and once a parse has failed every later
\* parse leaves the matrix unchanged.
C10_ParseSequence ==
    /\ IF lastGood = <<>>
       THEN dst = dst0
       ELSE \A k \in 0 .. 15 :
               dst[(k % 4) * 4 + (k \div 4)] = ParseT(lastGood[k])
    /\ (pcall.op = "operator>>" /\ pcall.priorFailure) =>
          (dst = pcall.before /\ stream.fail)

\* a parse succeeded, a later one failed, and one more was attempted
C10_Witness ==
    /\ pcall.op = "operator>>"
    /\ pcall.priorFailure
    /\ lastGood # <<>>
    /\ nparse = MaxParses
    /\ Len(pcall.pre.toks) > 0

(***************************************************************************)
(* Properties of the scalar vector kernels (SpecVec).                      *)
(***************************************************************************)
CompareKernels == {"kernel_compare_eq_vec4", "kernel_compare_eq_vec2"}

\* the two components are identical, or their computed difference is
\* strictly below EPS
WithinEps(a, b) == a = b \/ FLt(FAbs(FSub(a, b)), EPS)

\* the computed difference of the two components reaches EPS
OutOfTolerance(a, b) == FGe(FAbs(FSub(a, b)), EPS)

\* C2: whenever a comparison kernel returns true, every component pair
\* differs by strictly less than EPS, and one component pair whose
\* difference is EPS or more makes it return false whatever the others are.
C2_TrueOnlyIfAllWithinEps ==
    vcall.kernel \in CompareKernels =>
        /\ vcall.eq =>
              \A i \in DOMAIN vcall.lhs : WithinEps(vcall.lhs[i], vcall.rhs[i])
        /\ (\E i \in DOMAIN vcall.lhs :
               OutOfTolerance(vcall.lhs[i], vcall.rhs[i])) => ~vcall.eq

\* the half of C2 the kernels do satisfy: a component pair at or beyond EPS
\* (exactly EPS included) makes the comparison false
C2_OutOfToleranceFails ==
    vcall.kernel \in CompareKernels =>
        ((\E i \in DOMAIN vcall.lhs :
             OutOfTolerance(vcall.lhs[i], vcall.rhs[i])) => ~vcall.eq)

\* rhs is lhs with component i replaced by the computed lhs[i] + delta
PerturbedAt(lhs, rhs, i, delta) ==
    rhs = [lhs EXCEPT ![i] = FAdd(lhs[i], delta)]

ExceedsEps(delta) == FLt(EPS, FAbs(delta))

\* C7 as claimed: compare_eq(x, x) is true, and perturbing one component of
\* any x by any delta with |delta| > EPS makes compare_eq false.
C7_AnyPerturbationDetected ==
    vcall.kernel \in CompareKernels =>
        /\ vcall.lhs = vcall.rhs => vcall.eq
        /\ \A i \in DOMAIN vcall.lhs : \A delta \in Deltas :
              (ExceedsEps(delta) /\ PerturbedAt(vcall.lhs, vcall.rhs, i, delta))
                  => ~vcall.eq

\* the addition x + delta is finite and exact: x' really differs from x by delta
ExactPerturbation(x, delta) ==
    /\ IsFinite(x)
    /\ FSub(FAdd(x, delta), x) = delta

\* C7 amended: compare_eq(x, x) is true for every x, and compare_eq(x, x') is
\* false when x' is x with one finite component x[i] replaced by x[i] + delta,
\* |delta| > EPS, and that addition is computed exactly.
C7_ReflexiveAndExactPerturbationDetected ==
    vcall.kernel \in CompareKernels =>
        /\ vcall.lhs = vcall.rhs => vcall.eq
        /\ \A i \in DOMAIN vcall.lhs : \A delta \in Deltas :
              ( /\ ExceedsEps(delta)
                /\ ExactPerturbation(vcall.lhs[i], delta)
                /\ PerturbedAt(vcall.lhs, vcall.rhs, i, delta) )
                  => ~vcall.eq

\* a comparison of x with an exactly perturbed x' has run and returned false
C7_Witness ==
    /\ vcall.kernel = "kernel_compare_eq_vec4"
    /\ ~vcall.eq
    /\ \E i \in DOMAIN vcall.lhs : \E delta \in Deltas :
          /\ ExceedsEps(delta)
          /\ ExactPerturbation(vcall.lhs[i], delta)
          /\ PerturbedAt(vcall.lhs, vcall.rhs, i, delta)

\* C8: kernel_add writes the same destination for (a, b) as for (b, a), and
\* kernel_dot returns the same value for (a, b) as for (b, a), for length 2
\* and length 4.
C8_AddDotCommute ==
    /\ vcall.kernel = "kernel_add_vec4" =>
          vcall.dst = kernel_add_vec4(vcall.dst, vcall.rhs, vcall.lhs)
    /\ vcall.kernel = "kernel_add_vec2" =>
          vcall.dst = kernel_add_vec2(vcall.dst, vcall.rhs, vcall.lhs)
    /\ vcall.kernel = "kernel_dot_vec4" =>
          vcall.ret = kernel_dot_vec4(vcall.rhs, vcall.lhs)
    /\ vcall.kernel = "kernel_dot_vec2" =>
          vcall.ret = kernel_dot_vec2(vcall.rhs, vcall.lhs)

\* kernel_add_vec4 has run on two buffers that differ in a finite component
C8_Witness ==
    /\ vcall.kernel = "kernel_add_vec4"
    /\ \E i \in DOMAIN vcall.lhs :
          /\ vcall.lhs[i] # vcall.rhs[i]
          /\ IsFinite(vcall.lhs[i]) /\ IsFinite(vcall.rhs[i])
          /\ vcall.dst[i] # vcall.lhs[i]

\* the sum of the products p[0], p[1], ... taken from zero in index order
SumInOrder4(p) == FAdd(FAdd(FAdd(FAdd(Zero, p[0]), p[1]), p[2]), p[3])
SumInOrder2(p) == FAdd(FAdd(Zero, p[0]), p[1])

\* C9: kernel_length_square(v) returns what kernel_dot(v, v) returns, both
\* being the sum from zero, in index order, of the componentwise products,
\* and neither modifies its input buffers.
C9_LengthSquareIsDot ==
    /\ vcall.kernel = "kernel_length_square_vec4" =>
          /\ vcall.ret = kernel_dot_vec4(vcall.lhs, vcall.lhs)
          /\ vcall.ret = SumInOrder4([i \in 0 .. 3 |->
                                        FMul(vcall.lhs[i], vcall.lhs[i])])
    /\ vcall.kernel = "kernel_dot_vec4" =>
          vcall.ret = SumInOrder4([i \in 0 .. 3 |->
                                     FMul(vcall.lhs[i], vcall.rhs[i])])
    /\ vcall.kernel = "kernel_length_square_vec2" =>
          /\ vcall.ret = kernel_dot_vec2(vcall.lhs, vcall.lhs)
          /\ vcall.ret = SumInOrder2([i \in 0 .. 1 |->
                                        FMul(vcall.lhs[i], vcall.lhs[i])])
    /\ vcall.kernel = "kernel_dot_vec2" =>
          vcall.ret = SumInOrder2([i \in 0 .. 1 |->
                                     FMul(vcall.lhs[i], vcall.rhs[i])])
    /\ vcall.kernel \in {"kernel_length_square_vec4", "kernel_dot_vec4",
                         "kernel_length_square_vec2", "kernel_dot_vec2"} =>
          /\ bufA = vcall.lhs
          /\ vcall.kernel \in {"kernel_dot_vec4", "kernel_dot_vec2"} =>
                bufB = vcall.rhs

\* kernel_length_square_vec4 has run on a buffer of distinct finite values
C9_Witness ==
    /\ vcall.kernel = "kernel_length_square_vec4"
    /\ \A i \in DOMAIN vcall.lhs : IsFinite(vcall.lhs[i])
    /\ vcall.lhs[0] # vcall.lhs[1]
    /\ vcall.ret # Zero

(***************************************************************************)
(* Claims about the Matrix4 operator layer (SpecMat).                      *)
(***************************************************************************)
OperandsAsPassed ==
    /\ matA = mcall.argA
    /\ matB = mcall.argB
    /\ vecV = mcall.argV

\* C3: after a call of transpose, trace, determinant, inverse, +, -,
\* scalar*matrix, matrix*scalar, matrix*matrix, matrix*vector, hadamard, ==
\* or !=, every element of every operand is what it was before the call;
\* only transposeInPlace leaves an argument changed, and it leaves its
\* argument transposed.
C3_OperandsNotMutated ==
    mcall.op # "none" =>
        /\ mcall.op # "transposeInPlace" => OperandsAsPassed
        /\ ~OperandsAsPassed => mcall.op = "transposeInPlace"
        /\ mcall.op = "transposeInPlace" =>
              /\ matA = scalar_kernel_transpose_inplace_mat4(mcall.argA)
              /\ matB = mcall.argB
              /\ vecV = mcall.argV

\* transpose has been called on a matrix that is not symmetric and returned
\* its transpose, and the caller's matrix is still the one passed
C3_Witness ==
    /\ mcall.op = "transpose"
    /\ mcall.ret # mcall.argA
    /\ mcall.ret = scalar_kernel_transpose_inplace_mat4(mcall.argA)
    /\ matA = mcall.argA

Dispatched ==
    {"operator+", "operator-", "scalar*matrix", "matrix*scalar",
     "matrix*matrix", "matrix*vector", "hadamard"}

KernelOf(op) ==
    CASE op = "operator+" -> "kernel_add_mat4"
      [] op = "operator-" -> "kernel_sub_mat4"
      [] op = "scalar*matrix" -> "kernel_scale_mat4"
      [] op = "matrix*scalar" -> "kernel_scale_mat4"
      [] op = "matrix*matrix" -> "kernel_matmul_mat4"
      [] op = "matrix*vector" -> "kernel_matmul_vec_mat4"
      [] OTHER -> "kernel_hadamard_mat4"

Backend ==
    IF LOCOMATH_AVX_ENABLED THEN "avx"
    ELSE IF LOCOMATH_SSE_ENABLED THEN "sse"
    ELSE "scalar"

\* C4: a call of +, -, scalar*matrix, matrix*scalar, matrix*matrix,
\* matrix*vector or hadamard invokes exactly one kernel, the one of its
\* operation, from the AVX set if AVX is enabled, else from the SSE set if
\* SSE is enabled, else from the scalar set, whatever the operands and
\* whatever was called before.
C4_OneKernelByBuildFlags ==
    mcall.op \in Dispatched =>
        /\ Len(mcall.kernels) = 1
        /\ mcall.kernels[1] = <<Backend, KernelOf(mcall.op)>>

\* hadamard has been called in a build with both flags on
C4_Witness ==
    /\ mcall.op = "hadamard"
    /\ LOCOMATH_AVX_ENABLED
    /\ LOCOMATH_SSE_ENABLED
    /\ mcall.kernels = <<<<"avx", "kernel_hadamard_mat4">>>>

\* what the call recorded in mcall returns in the build without SIMD
ScalarBuildResult ==
    CASE mcall.op = "operator+" ->
            operator_add(FALSE, FALSE, mcall.argA, mcall.argB).ret
      [] mcall.op = "operator-" ->
            operator_sub(FALSE, FALSE, mcall.argA, mcall.argB).ret
      [] mcall.op = "scalar*matrix" ->
            operator_mul_scalar_mat(FALSE, FALSE, mcall.scale, mcall.argA).ret
      [] mcall.op = "matrix*scalar" ->
            operator_mul_mat_scalar(FALSE, FALSE, mcall.argA, mcall.scale).ret
      [] mcall.op = "matrix*matrix" ->
            operator_mul_mat_mat(FALSE, FALSE, mcall.argA, mcall.argB).ret
      [] mcall.op = "matrix*vector" ->
            operator_mul_mat_vec(FALSE, FALSE, mcall.argA, mcall.argV).ret
      [] OTHER ->
            hadamard(FALSE, FALSE, mcall.argA, mcall.argB).ret

\* the sum of the magnitudes of the terms that make up element o of the
\* result: the four products of a matrix product, else the element itself
Magnitude(o) ==
    LET a(i, k) == mcall.argA[ElemAt(i, k)]
        sum(p) == FAdd(FAdd(FAdd(FAbs(p[0]), FAbs(p[1])), FAbs(p[2])), FAbs(p[3]))
    IN  CASE mcall.op = "matrix*matrix" ->
                sum([k \in Lanes |->
                        FMul(a(o % MATRIX_SIZE, k),
                             mcall.argB[ElemAt(k, o \div MATRIX_SIZE)])])
          [] mcall.op = "matrix*vector" ->
                sum([k \in Lanes |-> FMul(a(o, k), mcall.argV[k])])
          [] OTHER -> FAbs(ScalarBuildResult[o])

\* eight units in the last place of T
RoundingSlack == Flt(1, 3 - MantBits)

\* equal, or finite and no further apart than the rounding of the terms
WithinRounding(x, y, mag) ==
    \/ x = y
    \/ /\ IsFinite(x)
       /\ IsFinite(y)
       /\ IsFinite(mag)
       /\ ~FLt(FMul(RoundingSlack, mag), FAbs(FSub(x, y)))

====
